---- MODULE Spec2Model ----
(***************************************************************************)
(* A state-machine model of the eks-platform-pipeline CDK application:     *)
(* the synthesis pass (app.py, deployment.py, pipeline.py, eks/eks.py)     *)
(* that declares constructs one constructor step at a time, followed by    *)
(* the execution of the declared pipeline by the pipeline engine.          *)
(*                                                                         *)
(* Python values that cross a **kwargs boundary are written as strings:    *)
(* "True", "False" and "1" are the Python values True, False and 1.        *)
(* Construct ids carry the prefix the CDK gives them (add_manifest(id)     *)
(* declares "manifest-<id>", add_helm_chart(id) declares "chart-<id>").    *)
(***************************************************************************)
EXTENDS Integers, Sequences, FiniteSets, TLC

VARIABLES
    environ,     \* os.environ: CDK_DEFAULT_ACCOUNT, CDK_DEFAULT_REGION
    todo,        \* the statements still to run, innermost call first
    call,        \* arguments of the Platform(...) call being made
    eksargs,     \* arguments of the PlatformEKS(...) call being made
    self,        \* the fields of the PlatformEKS under construction
    stages,      \* cdk.Stage objects constructed so far: [id, env]
    constructs,  \* every construct declared so far, in declaration order
    deps,        \* node.add_dependency edges: [scope, from, to]
    networks,    \* PlatformNetwork instances: [scope, vpc]
    clusters,    \* eks.Cluster declarations
    nodegroups,  \* add_nodegroup_capacity declarations, in order
    configmaps,  \* ConfigMap manifests with their data
    charts,      \* add_helm_chart declarations
    policies,    \* policy statements attached: [scope, principal, stmt]
    bastions,    \* the bastion instances with their bootstrap parameters
    fetches,     \* remote policy documents fetched: [scope, doc], in order
    pipeline,    \* the stages of the CdkPipeline, in order
    raised,      \* the statement whose exception ended the run, or "None"
    started,     \* pipeline actions the engine has started: <<stage, name>>
    succeeded,   \* pipeline actions that have succeeded
    failed       \* pipeline actions that have failed (or were rejected)

synthVars == <<environ, todo, call, eksargs, self, stages, constructs, deps,
               networks, clusters, nodegroups, configmaps, charts, policies,
               bastions, fetches, pipeline, raised>>
engineVars == <<started, succeeded, failed>>
vars == <<synthVars, engineVars>>

----------------------------------------------------------------------------
(* eks/eks.py module constants *)

DEPLOY_CLUSTER_AUTOSCALER == "deploy_cluster_autoscaler"
DEPLOY_AWS_LB_CONTROLLER == "deploy_alb_controller"
CLUSTER_NAME == "cluster_name"
ENV == "env_name"
AWS_LB_CONTROLLER == "aws-load-balancer-controller"

flags_names == <<DEPLOY_CLUSTER_AUTOSCALER, DEPLOY_AWS_LB_CONTROLLER>>
params_names == <<CLUSTER_NAME, ENV>>

----------------------------------------------------------------------------
(* The inputs the model draws from *)

Accounts == {"111111111111", "222222222222"}
Regions == {"eu-west-1", "eu-central-1", "us-east-1"}
FlagValues == {"True", "False", "1"}
ClusterNames == {"eks-test", "cluster_name"}
EnvNames == {"dev", "env_name"}
OtherKey == "tags"

Range(s) == {s[i] : i \in DOMAIN s}

\* Every keyword-argument dictionary a caller may pass: any subset of the
\* known flags and parameters and of one unknown key, with any value.
ArgValues(k) ==
    IF k \in Range(flags_names) THEN FlagValues
    ELSE IF k = CLUSTER_NAME THEN ClusterNames
    ELSE IF k = ENV THEN EnvNames
    ELSE {"x"}

AllKeys == Range(flags_names) \cup Range(params_names) \cup {OtherKey}

Kwargs ==
    UNION {{f \in [K -> UNION {ArgValues(k) : k \in K}] :
                \A k \in K : f[k] \in ArgValues(k)} : K \in SUBSET AllKeys}

NoArgs == [k \in {} |-> "x"]
NoEnv == [account |-> "", region |-> ""]
NoCall == [id_ |-> "", env |-> NoEnv, args |-> NoArgs]
NoEksArgs == [scope |-> "", vpc |-> "None", env |-> NoEnv, kwargs |-> NoArgs]
NoSelf == [scope |-> "", flags |-> NoArgs, params |-> NoArgs, env |-> NoEnv,
           eks_vpc |-> "None", eks_cluster |-> "None",
           cluster_admin_role |-> "None", ssm_agent_manifest |-> "None"]

----------------------------------------------------------------------------
(* PlatformEKS: pure helpers *)

_extract_params_from_kwargs(kwargs) ==
    [param \in Range(params_names) |->
        IF param \in DOMAIN kwargs THEN kwargs[param] ELSE param]

\* The flags left at their default whatever the caller passes.
_extract_flags_default_only(kwargs) ==
    [flag \in Range(flags_names) |-> "True"]

_extract_flags_from_kwargs(kwargs) ==
    [flag \in Range(flags_names) |->
        IF flag \in DOMAIN kwargs THEN kwargs[flag] ELSE "True"]

\* The two parameters joined the other way round.
cluster_name_of_swapped(params) == params[ENV] \o "-" \o params[CLUSTER_NAME]

\* cluster_name=self.params[CLUSTER_NAME] + "-" + self.params[ENV]
cluster_name_of(params) == params[CLUSTER_NAME] \o "-" \o params[ENV]

\* The node pools requested before the cluster is created.
PlatformEKS_calls_nodegroups_first ==
    <<"_create_nodegroups", "_create_eks", "_deploy_addons">>

\* The calls PlatformEKS.__init__ makes after reading its arguments.
PlatformEKS_calls == <<"_create_eks", "_create_nodegroups", "_deploy_addons">>

\* _deploy_addons installing the load-balancer controller whatever its flag.
_deploy_addons_calls_always_lb(flags) ==
    <<"_deploy_ssm_agent", "_deploy_bastion">>
    \o (IF flags[DEPLOY_CLUSTER_AUTOSCALER] = "True"
        THEN <<"_deploy_cluster_autoscaler">> ELSE <<>>)
    \o <<"_deploy_aws_load_balancer_controller">>

\* The calls _deploy_addons makes for a given flag dictionary.
_deploy_addons_calls(flags) ==
    <<"_deploy_ssm_agent", "_deploy_bastion">>
    \o (IF flags[DEPLOY_CLUSTER_AUTOSCALER] = "True"
        THEN <<"_deploy_cluster_autoscaler">> ELSE <<>>)
    \o (IF flags[DEPLOY_AWS_LB_CONTROLLER] = "True"
        THEN <<"_deploy_aws_load_balancer_controller">> ELSE <<>>)

Construct(scope, id, kind) == [scope |-> scope, id |-> id, kind |-> kind]
Dep(scope, from, to) == [scope |-> scope, from |-> from, to |-> to]

Stmt(actions, resources) == [actions |-> actions, resources |-> resources]
Policy(scope, principal, stmt) ==
    [scope |-> scope, principal |-> principal, stmt |-> stmt]

Next_is(step) == todo # <<>> /\ Head(todo) = step

----------------------------------------------------------------------------
(* deployment.py: Platform *)

\* env_name: str = "eks-env" in the signature
Platform_env_name(args) ==
    IF ENV \in DOMAIN args THEN args[ENV] ELSE "eks-env"

\* **kwargs: every keyword argument the signature does not name
Platform_kwargs(args) == [k \in DOMAIN args \ {ENV} |-> args[k]]

Platform_cluster_name(kwargs) ==
    IF "cluster_name" \in DOMAIN kwargs THEN kwargs["cluster_name"] ELSE "eks"

\* The cluster name left out of the call to PlatformEKS.
Platform_eks_kwargs_env_only(args) ==
    [k \in {ENV} |-> Platform_env_name(args)]

\* The keyword arguments Platform hands to PlatformEKS.
Platform_eks_kwargs(args) ==
    [k \in {ENV, CLUSTER_NAME} |->
        IF k = ENV THEN Platform_env_name(args)
        ELSE Platform_cluster_name(Platform_kwargs(args))]

\* network/infra.py: PlatformNetwork declares one virtual network, which is
\* identified here by the path of the construct that owns it.
PlatformNetwork(scope) ==
    [scope |-> scope, vpc |-> scope \o "/Network/PlatformNetwork/vpc"]

\* The Dev stage's network handed to every stage's cluster.
Platform_vpc_shared(network) == PlatformNetwork("Platform-Dev").vpc

\* vpc=network.vpc
Platform_vpc(network) == network.vpc

Platform__init__ ==
    /\ Next_is("Platform")
    /\ LET id == call.id_
           network == PlatformNetwork(id)
       IN  /\ stages' = Append(stages, [id |-> id, env |-> call.env])
           /\ constructs' = constructs \o
                  << Construct(id, "Network", "Stack"),
                     Construct(id, "PlatformNetwork", "Network"),
                     Construct(id, "EKS", "Stack") >>
           /\ networks' = Append(networks, network)
           /\ eksargs' = [scope |-> id,
                          vpc |-> Platform_vpc(network),
                          env |-> call.env,
                          kwargs |-> Platform_eks_kwargs(call.args)]
    /\ todo' = <<"PlatformEKS">> \o Tail(todo)
    /\ UNCHANGED <<environ, call, self, deps, clusters, nodegroups,
                   configmaps, charts, policies, bastions, fetches, pipeline>>
    /\ UNCHANGED engineVars
    /\ UNCHANGED raised

----------------------------------------------------------------------------
(* eks/eks.py: PlatformEKS *)

PlatformEKS__init__ ==
    /\ Next_is("PlatformEKS")
    /\ self' = [NoSelf EXCEPT
                   !.scope = eksargs.scope,
                   !.flags = _extract_flags_from_kwargs(eksargs.kwargs),
                   !.params = _extract_params_from_kwargs(eksargs.kwargs),
                   !.env = eksargs.env,
                   !.eks_vpc = eksargs.vpc]
    /\ constructs' = Append(constructs,
                            Construct(eksargs.scope, "PlatformEKS", "Construct"))
    /\ todo' = PlatformEKS_calls \o Tail(todo)
    /\ UNCHANGED <<environ, call, eksargs, stages, deps, networks, clusters,
                   nodegroups, configmaps, charts, policies, bastions, fetches,
                   pipeline>>
    /\ UNCHANGED engineVars
    /\ UNCHANGED raised

_create_eks ==
    /\ Next_is("_create_eks")
    /\ constructs' = constructs \o
           << Construct(self.scope, "ClusterAdminRole", "Role"),
              Construct(self.scope, "EKSSecurityGroup", "SecurityGroup"),
              Construct(self.scope, "cluster", "Cluster") >>
    /\ policies' = policies \cup
           {Policy(self.scope, "ClusterAdminRole",
                   Stmt({"eks:DescribeCluster"}, {"*"}))}
    /\ clusters' = Append(clusters,
           [scope |-> self.scope,
            cluster_name |-> cluster_name_of(self.params),
            vpc |-> self.eks_vpc,
            vpc_subnets |-> "eks-control-plane",
            masters_role |-> "ClusterAdminRole",
            default_capacity |-> 0,
            security_group |-> "EKSSecurityGroup",
            endpoint_access |-> "PRIVATE",
            version |-> "1.20"])
    /\ self' = [self EXCEPT !.cluster_admin_role = "ClusterAdminRole",
                            !.eks_cluster = cluster_name_of(self.params)]
    /\ todo' = Tail(todo)
    /\ UNCHANGED <<environ, call, eksargs, stages, deps, networks, nodegroups,
                   configmaps, charts, bastions, fetches, pipeline>>
    /\ UNCHANGED engineVars
    /\ UNCHANGED raised

Nodegroup(id, name, capacity_type, min, desired, max, ami_type, types, role) ==
    [scope |-> self.scope, cluster |-> self.eks_cluster, id |-> id,
     nodegroup_name |-> name, capacity_type |-> capacity_type,
     min_size |-> min, desired_size |-> desired, max_size |-> max,
     ami_type |-> ami_type, instance_types |-> types, node_role |-> role,
     subnets |-> "Private"]

od_default_ng ==
    Nodegroup("ODDefaultNodegroup", "od-default-ng", "ON_DEMAND", 0, 1, 10,
              "AL2_X86_64", <<"m5.large">>, "ODDefaultNGRole")

\* The spot pool declared with no instance type of its own.
spot_default_ng_no_types ==
    Nodegroup("SpotDefaultNodegroup", "spot-default-ng", "SPOT", 0, 1, 10,
              "AL2_X86_64", <<>>, "SPOTDefaultNGRole")

spot_default_ng ==
    Nodegroup("SpotDefaultNodegroup", "spot-default-ng", "SPOT", 0, 1, 10,
              "AL2_X86_64", <<"m5.large", "c5.large", "m4.large", "c4.large">>,
              "SPOTDefaultNGRole")

od_graviton_ng ==
    Nodegroup("ODGravitonNodegroup", "od-graviton-ng", "SPOT", 0, 0, 10,
              "AL2_ARM_64", <<"m6g.large">>, "ODGravitonNGRole")

_create_nodegroups_list == <<od_default_ng, spot_default_ng, od_graviton_ng>>

_create_nodegroups ==
    /\ Next_is("_create_nodegroups")
    /\ constructs' = constructs \o
           << Construct(self.scope, "ODDefaultNGRole", "Role"),
              Construct(self.scope, "SPOTDefaultNGRole", "Role"),
              Construct(self.scope, "ODGravitonNGRole", "Role") >>
           \o [i \in DOMAIN _create_nodegroups_list |->
                 Construct(self.scope, _create_nodegroups_list[i].id,
                           "Nodegroup")]
    /\ nodegroups' = nodegroups \o _create_nodegroups_list
    /\ todo' = Tail(todo)
    /\ UNCHANGED <<environ, call, eksargs, self, stages, deps, networks,
                   clusters, configmaps, charts, policies, bastions, fetches,
                   pipeline>>
    /\ UNCHANGED engineVars
    /\ UNCHANGED raised

_deploy_addons ==
    /\ Next_is("_deploy_addons")
    /\ todo' = _deploy_addons_calls(self.flags) \o Tail(todo)
    /\ UNCHANGED <<environ, call, eksargs, self, stages, constructs, deps,
                   networks, clusters, nodegroups, configmaps, charts,
                   policies, bastions, fetches, pipeline>>
    /\ UNCHANGED engineVars
    /\ UNCHANGED raised

_deploy_ssm_agent ==
    /\ Next_is("_deploy_ssm_agent")
    /\ constructs' = Append(constructs,
           Construct(self.scope, "manifest-SSMAgentManifest", "Manifest"))
    /\ self' = [self EXCEPT !.ssm_agent_manifest = "manifest-SSMAgentManifest"]
    /\ todo' = Tail(todo)
    /\ UNCHANGED <<environ, call, eksargs, stages, deps, networks, clusters,
                   nodegroups, configmaps, charts, policies, bastions, fetches,
                   pipeline>>
    /\ UNCHANGED engineVars
    /\ UNCHANGED raised

\* "arn:aws:secretsmanager:<region>:*:secret:<name>*"
SecretArn(region, name) ==
    "arn:aws:secretsmanager:" \o region \o ":*:secret:" \o name \o "*"

\* The region written into bastion_secrets_manager_policy's resources.
bastion_secrets_policy_region == "eu-west-1"

bastion_secrets_manager_policy ==
    Stmt({"secretsmanager:GetSecretValue"},
         {SecretArn(bastion_secrets_policy_region, "github-token"),
          SecretArn(bastion_secrets_policy_region, "github-user")})

\* The bastion declared without its dependency on the agent manifest.
_deploy_bastion_deps_role_only ==
    {Dep(self.scope, "ClusterAdminRoleInstanceProfile", self.cluster_admin_role)}

\* self.bastion.node.add_dependency(self.ssm_agent_manifest)
_deploy_bastion_deps ==
    {Dep(self.scope, "ClusterAdminRoleInstanceProfile", self.cluster_admin_role),
     Dep(self.scope, "EKSBastion", self.ssm_agent_manifest)}

_deploy_bastion ==
    /\ Next_is("_deploy_bastion")
    /\ constructs' = constructs \o
           << Construct(self.scope, "ClusterAdminRoleInstanceProfile",
                        "InstanceProfile"),
              Construct(self.scope, "BastionSecurityGroup", "SecurityGroup"),
              Construct(self.scope, "EKSBastion", "Instance"),
              Construct(self.scope, "BastionAddress", "Output") >>
    /\ policies' = policies \cup
           {Policy(self.scope, self.cluster_admin_role,
                   Stmt({"managed:AmazonSSMManagedInstanceCore"}, {"*"})),
            Policy(self.scope, self.cluster_admin_role,
                   bastion_secrets_manager_policy)}
    /\ bastions' = bastions \cup
           {[scope |-> self.scope,
             instance_name |-> self.eks_cluster \o "-bastion",
             role |-> self.cluster_admin_role,
             subnet_type |-> "PUBLIC",
             kubeconfig_region |-> self.env.region,
             secrets_region |-> self.env.region,
             secrets |-> {"github-token", "github-user"},
             flux_path |-> "clusters/" \o self.eks_cluster]}
    /\ deps' = deps \cup _deploy_bastion_deps
    /\ todo' = Tail(todo)
    /\ UNCHANGED <<environ, call, eksargs, self, stages, networks, clusters,
                   nodegroups, configmaps, charts, fetches, pipeline>>
    /\ UNCHANGED engineVars
    /\ UNCHANGED raised

\* The lines of the "priorities" value
\*   "10: \n  - \n  - od*\n20: \n  - spot*"
\* a key line opens a priority, an item line gives one pattern under it.
KeyLine(n) == [kind |-> "key", num |-> n, pat |-> ""]
ItemLine(p) == [kind |-> "item", num |-> 0, pat |-> p]

\* The two patterns listed under each other's priority.
priority_expander_lines_swapped ==
    << KeyLine(10), ItemLine(""), ItemLine("spot*"), KeyLine(20),
       ItemLine("od*") >>

priority_expander_lines ==
    << KeyLine(10), ItemLine(""), ItemLine("od*"), KeyLine(20),
       ItemLine("spot*") >>

\* What the priority expander reads from the lines: the priorities under
\* which a pattern is listed (the key line that last precedes the item).
PrioritiesOf(lines, pat) ==
    {lines[k].num : k \in
        {k \in DOMAIN lines :
            /\ lines[k].kind = "key"
            /\ \E i \in DOMAIN lines :
                  /\ i > k
                  /\ lines[i].kind = "item"
                  /\ lines[i].pat = pat
                  /\ \A j \in (k + 1)..(i - 1) : lines[j].kind # "key"}}

Chart(id, chart, version, release, sa, expander, replicas) ==
    [scope |-> self.scope, id |-> id, chart |-> chart, version |-> version,
     release |-> release, namespace |-> "kube-system",
     clusterName |-> self.eks_cluster, region |-> self.env.region,
     serviceAccount |-> sa, expander |-> expander, replicaCount |-> replicas]

\* The autoscaler chart ordered after its service account instead.
_deploy_cluster_autoscaler_deps_sa ==
    {Dep(self.scope, "chart-cluster-autoscaler", "cluster_autoscaler")}

\* cluster_autoscaler_chart.node.add_dependency(self.ssm_agent_manifest)
_deploy_cluster_autoscaler_deps ==
    {Dep(self.scope, "chart-cluster-autoscaler", self.ssm_agent_manifest)}

_deploy_cluster_autoscaler ==
    /\ Next_is("_deploy_cluster_autoscaler")
    /\ constructs' = constructs \o
           << Construct(self.scope, "cluster_autoscaler", "ServiceAccount"),
              Construct(self.scope, "manifest-CAPriorityExpanderConfigMap",
                        "Manifest"),
              Construct(self.scope, "chart-cluster-autoscaler", "HelmChart") >>
    /\ policies' = policies \cup
           {Policy(self.scope, "cluster_autoscaler",
                   Stmt({"autoscaling:DescribeAutoScalingGroups",
                         "autoscaling:DescribeAutoScalingInstances",
                         "autoscaling:DescribeLaunchConfigurations",
                         "autoscaling:DescribeTags",
                         "autoscaling:SetDesiredCapacity",
                         "autoscaling:TerminateInstanceInAutoScalingGroup",
                         "ec2:DescribeLaunchTemplateVersions"}, {"*"}))}
    /\ configmaps' = configmaps \cup
           {[scope |-> self.scope,
             name |-> "cluster-autoscaler-priority-expander",
             namespace |-> "kube-system",
             priorities |-> priority_expander_lines]}
    /\ charts' = charts \cup
           {Chart("chart-cluster-autoscaler", "cluster-autoscaler", "9.9.2",
                  "cluster-autoscaler", "cluster-autoscaler", "priority", 1)}
    /\ deps' = deps \cup _deploy_cluster_autoscaler_deps
    /\ todo' = Tail(todo)
    /\ UNCHANGED <<environ, call, eksargs, self, stages, networks, clusters,
                   nodegroups, bastions, fetches, pipeline>>
    /\ UNCHANGED engineVars
    /\ UNCHANGED raised

\* _deploy_aws_load_balancer_controller runs in three steps: the service
\* account, the fetch of the remote policy document with the loop over its
\* statements, and the chart.
_deploy_aws_load_balancer_controller ==
    /\ Next_is("_deploy_aws_load_balancer_controller")
    /\ constructs' = Append(constructs,
           Construct(self.scope, AWS_LB_CONTROLLER, "ServiceAccount"))
    /\ todo' = <<"requests_get", "add_helm_chart">> \o Tail(todo)
    /\ UNCHANGED <<environ, call, eksargs, self, stages, deps, networks,
                   clusters, nodegroups, configmaps, charts, policies,
                   bastions, fetches, pipeline>>
    /\ UNCHANGED engineVars
    /\ UNCHANGED raised

\* The n-th statement of the remote iam_policy.json.
DocStatement(n) == Stmt({"iam_policy.json#" \o ToString(n)}, {"*"})

\* The largest number of statements the remote document holds.
MaxStatements == 2

_deploy_aws_load_balancer_controller_fetch ==
    /\ Next_is("requests_get")
    /\ \E n \in 0..MaxStatements :
          LET doc == [i \in 1..n |-> DocStatement(i)]
          IN  /\ fetches' = Append(fetches, [scope |-> self.scope, doc |-> doc])
              /\ policies' = policies \cup
                     {Policy(self.scope, AWS_LB_CONTROLLER, doc[i]) :
                          i \in 1..n}
    /\ todo' = Tail(todo)
    /\ UNCHANGED <<environ, call, eksargs, self, stages, constructs, deps,
                   networks, clusters, nodegroups, configmaps, charts,
                   bastions, pipeline>>
    /\ UNCHANGED engineVars
    /\ UNCHANGED raised

\* aws_lb_controller_chart.node.add_dependency(aws_lb_controller_service_account)
_deploy_aws_load_balancer_controller_deps ==
    {Dep(self.scope, "chart-aws-load-balancer-controller", AWS_LB_CONTROLLER)}

_deploy_aws_load_balancer_controller_chart ==
    /\ Next_is("add_helm_chart")
    /\ constructs' = Append(constructs,
           Construct(self.scope, "chart-aws-load-balancer-controller",
                     "HelmChart"))
    /\ charts' = charts \cup
           {Chart("chart-aws-load-balancer-controller",
                  "aws-load-balancer-controller", "1.2.3", "aws-lb-controller",
                  AWS_LB_CONTROLLER, "None", 2)}
    /\ deps' = deps \cup _deploy_aws_load_balancer_controller_deps
    /\ todo' = Tail(todo)
    /\ UNCHANGED <<environ, call, eksargs, self, stages, networks, clusters,
                   nodegroups, configmaps, policies, bastions, fetches,
                   pipeline>>
    /\ UNCHANGED engineVars
    /\ UNCHANGED raised

----------------------------------------------------------------------------
(* pipeline.py: Pipeline *)

Action(name, run_order, category) ==
    [name |-> name, run_order |-> run_order, category |-> category]

PipelineStage(name, stage_id, actions) ==
    [name |-> name, stage_id |-> stage_id, actions |-> actions]

\* The stages pipelines.CdkPipeline declares from source_action and
\* synth_action ahead of the application stages: the source, the synthesis,
\* the pipeline's self-update and the publishing of the stacks' assets.
CdkPipeline_stages ==
    << PipelineStage("Source", "", {Action("GitHub", 1, "Source")}),
       PipelineStage("Build", "", {Action("Synth", 1, "Build")}),
       PipelineStage("UpdatePipeline", "", {Action("SelfMutate", 1, "Build")}),
       PipelineStage("Assets", "", {Action("FileAssets", 1, "Build")}) >>

\* The production stage added before the pre-production stage.
Pipeline_calls_prod_first == <<"_add_prod_stage", "_add_pre_prod_stage">>

\* The calls Pipeline.__init__ makes once the CdkPipeline exists.
Pipeline_calls == <<"_add_pre_prod_stage", "_add_prod_stage">>

Pipeline__init__ ==
    /\ Next_is("Pipeline")
    /\ constructs' = Append(constructs,
           Construct("Platform-Pipeline", "EKSPlatform", "CdkPipeline"))
    /\ pipeline' = CdkPipeline_stages
    /\ todo' = Pipeline_calls \o Tail(todo)
    /\ UNCHANGED <<environ, call, eksargs, self, stages, deps, networks,
                   clusters, nodegroups, configmaps, charts, policies,
                   bastions, fetches>>
    /\ UNCHANGED engineVars
    /\ UNCHANGED raised

\* The stacks of a cdk.Stage, in the order they were declared (the EKS stack
\* reads the Network stack's vpc, so this is also their dependency order).
StacksOf(stage_id) ==
    SelectSeq(constructs, LAMBDA c : c.scope = stage_id /\ c.kind = "Stack")

\* add_application_stage: one prepare and one deploy action per stack, with
\* consecutive run orders.
ApplicationActions(stage_id) ==
    LET stacks == StacksOf(stage_id)
    IN  UNION {{Action(stacks[i].id \o ".Prepare", 2 * i - 1, "Deploy"),
                Action(stacks[i].id \o ".Deploy", 2 * i, "Deploy")} :
                   i \in DOMAIN stacks}

SetMax(S) == CHOOSE x \in S : \A y \in S : y <= x

next_sequential_run_order(actions) ==
    IF actions = {} THEN 1 ELSE SetMax({a.run_order : a \in actions}) + 1

pre_prod_env ==
    [account |-> environ.CDK_DEFAULT_ACCOUNT,
     region |-> environ.CDK_DEFAULT_REGION]

\* The production environment left in the default region.
prod_env_default_region ==
    [account |-> environ.CDK_DEFAULT_ACCOUNT,
     region |-> environ.CDK_DEFAULT_REGION]

prod_env ==
    [account |-> environ.CDK_DEFAULT_ACCOUNT, region |-> "eu-central-1"]

_add_pre_prod_stage ==
    /\ Next_is("_add_pre_prod_stage")
    /\ call' = [id_ |-> "Platform-PreProd", env |-> pre_prod_env,
                args |-> [k \in {ENV} |-> "pre-prod"]]
    /\ todo' = <<"Platform", "add_pre_prod_application_stage">> \o Tail(todo)
    /\ UNCHANGED <<environ, eksargs, self, stages, constructs, deps, networks,
                   clusters, nodegroups, configmaps, charts, policies,
                   bastions, fetches, pipeline>>
    /\ UNCHANGED engineVars
    /\ UNCHANGED raised

\* run_order=pre_prod_stage.next_sequential_run_order()
approval_run_order(actions) == next_sequential_run_order(actions)

_add_pre_prod_stage_add ==
    /\ Next_is("add_pre_prod_application_stage")
    /\ LET actions == ApplicationActions("Platform-PreProd")
       IN  pipeline' = Append(pipeline,
               PipelineStage("Platform-PreProd", "Platform-PreProd",
                   actions \cup
                   {Action("ConfirmPreProdDeployment",
                           approval_run_order(actions), "Approval")}))
    /\ todo' = Tail(todo)
    /\ UNCHANGED <<environ, call, eksargs, self, stages, constructs, deps,
                   networks, clusters, nodegroups, configmaps, charts,
                   policies, bastions, fetches>>
    /\ UNCHANGED engineVars
    /\ UNCHANGED raised

_add_prod_stage ==
    /\ Next_is("_add_prod_stage")
    /\ call' = [id_ |-> "Platform-Prod", env |-> prod_env, args |-> NoArgs]
    /\ todo' = <<"Platform", "add_prod_application_stage">> \o Tail(todo)
    /\ UNCHANGED <<environ, eksargs, self, stages, constructs, deps, networks,
                   clusters, nodegroups, configmaps, charts, policies,
                   bastions, fetches, pipeline>>
    /\ UNCHANGED engineVars
    /\ UNCHANGED raised

_add_prod_stage_add ==
    /\ Next_is("add_prod_application_stage")
    /\ pipeline' = Append(pipeline,
           PipelineStage("Platform-Prod", "Platform-Prod",
                         ApplicationActions("Platform-Prod")))
    /\ todo' = Tail(todo)
    /\ UNCHANGED <<environ, call, eksargs, self, stages, constructs, deps,
                   networks, clusters, nodegroups, configmaps, charts,
                   policies, bastions, fetches>>
    /\ UNCHANGED engineVars
    /\ UNCHANGED raised

----------------------------------------------------------------------------
(* app.py *)

dev_env ==
    [account |-> environ.CDK_DEFAULT_ACCOUNT,
     region |-> environ.CDK_DEFAULT_REGION]

app ==
    /\ Next_is("app")
    /\ call' = [id_ |-> "Platform-Dev", env |-> dev_env,
                args |-> [k \in {ENV, CLUSTER_NAME} |->
                             IF k = ENV THEN "dev" ELSE "eks-test"]]
    /\ todo' = <<"Platform", "Pipeline", "synth">> \o Tail(todo)
    /\ UNCHANGED <<environ, eksargs, self, stages, constructs, deps, networks,
                   clusters, nodegroups, configmaps, charts, policies,
                   bastions, fetches, pipeline>>
    /\ UNCHANGED engineVars
    /\ UNCHANGED raised

app_synth ==
    /\ Next_is("synth")
    /\ todo' = Tail(todo)
    /\ UNCHANGED <<environ, call, eksargs, self, stages, constructs, deps,
                   networks, clusters, nodegroups, configmaps, charts,
                   policies, bastions, fetches, pipeline>>
    /\ UNCHANGED engineVars
    /\ UNCHANGED raised

----------------------------------------------------------------------------
(* Exceptions *)

\* An exception caught where it is raised: the run goes on with the
\* statement after the failing one.
propagate_caught(stack) == Tail(stack)

\* No function of the application has a try statement: an exception raised
\* by any statement leaves every caller, and the run ends.
propagate(stack) == <<>>

\* The statement about to run raises: a provisioning call rejects its
\* arguments, requests.get fails, or the document is malformed.
Raise ==
    /\ todo # <<>>
    /\ raised = "None"
    /\ raised' = Head(todo)
    /\ todo' = propagate(todo)
    /\ UNCHANGED <<environ, call, eksargs, self, stages, constructs, deps,
                   networks, clusters, nodegroups, configmaps, charts,
                   policies, bastions, fetches, pipeline>>
    /\ UNCHANGED engineVars

----------------------------------------------------------------------------
(* The pipeline engine running the declared pipeline: stages run in their  *)
(* declared order, the actions of a stage in ascending run order, and a   *)
(* failed or rejected action halts the execution.                          *)

Synthesized == todo = <<>> /\ pipeline # <<>> /\ raised = "None"

StageDone(i) == \A a \in pipeline[i].actions : <<i, a.name>> \in succeeded

MayStart(i, a) ==
    /\ failed = {}
    /\ <<i, a.name>> \notin started
    /\ \A j \in 1..(i - 1) : StageDone(j)
    /\ \A b \in pipeline[i].actions :
          b.run_order < a.run_order => <<i, b.name>> \in succeeded

EngineStartAction ==
    /\ Synthesized
    /\ \E i \in DOMAIN pipeline : \E a \in pipeline[i].actions :
          /\ MayStart(i, a)
          /\ started' = started \cup {<<i, a.name>>}
    /\ UNCHANGED <<succeeded, failed>>
    /\ UNCHANGED synthVars

Running(i, a) ==
    /\ <<i, a.name>> \in started
    /\ <<i, a.name>> \notin succeeded \cup failed

EngineActionSucceeds ==
    /\ Synthesized
    /\ \E i \in DOMAIN pipeline : \E a \in pipeline[i].actions :
          /\ Running(i, a)
          /\ a.category # "Approval"
          /\ succeeded' = succeeded \cup {<<i, a.name>>}
    /\ UNCHANGED <<started, failed>>
    /\ UNCHANGED synthVars

EngineActionFails ==
    /\ Synthesized
    /\ \E i \in DOMAIN pipeline : \E a \in pipeline[i].actions :
          /\ Running(i, a)
          /\ a.category # "Approval"
          /\ failed' = failed \cup {<<i, a.name>>}
    /\ UNCHANGED <<started, succeeded>>
    /\ UNCHANGED synthVars

ManualApprove ==
    /\ Synthesized
    /\ \E i \in DOMAIN pipeline : \E a \in pipeline[i].actions :
          /\ Running(i, a)
          /\ a.category = "Approval"
          /\ succeeded' = succeeded \cup {<<i, a.name>>}
    /\ UNCHANGED <<started, failed>>
    /\ UNCHANGED synthVars

ManualReject ==
    /\ Synthesized
    /\ \E i \in DOMAIN pipeline : \E a \in pipeline[i].actions :
          /\ Running(i, a)
          /\ a.category = "Approval"
          /\ failed' = failed \cup {<<i, a.name>>}
    /\ UNCHANGED <<started, succeeded>>
    /\ UNCHANGED synthVars

----------------------------------------------------------------------------
(* The specification *)

\* A run starts from the environment variables and one entry point: the
\* application script, one Platform call or one PlatformEKS call with any
\* keyword arguments.
Init ==
    /\ environ \in [CDK_DEFAULT_ACCOUNT : Accounts, CDK_DEFAULT_REGION : Regions]
    /\ \/ /\ todo = <<"app">>
          /\ call = NoCall
          /\ eksargs = NoEksArgs
       \/ /\ todo = <<"Platform">>
          /\ call \in [id_ : {"Platform-Test"}, env : {dev_env}, args : Kwargs]
          /\ eksargs = NoEksArgs
       \/ /\ todo = <<"PlatformEKS">>
          /\ call = NoCall
          /\ eksargs \in [scope : {"Test"}, vpc : {"Test/vpc"}, env : {dev_env},
                          kwargs : Kwargs]
    /\ self = NoSelf
    /\ stages = <<>>
    /\ constructs = <<>>
    /\ deps = {}
    /\ networks = <<>>
    /\ clusters = <<>>
    /\ nodegroups = <<>>
    /\ configmaps = {}
    /\ charts = {}
    /\ policies = {}
    /\ bastions = {}
    /\ fetches = <<>>
    /\ pipeline = <<>>
    /\ raised = "None"
    /\ started = {}
    /\ succeeded = {}
    /\ failed = {}

Next ==
    \/ app
    \/ app_synth
    \/ Platform__init__
    \/ PlatformEKS__init__
    \/ _create_eks
    \/ _create_nodegroups
    \/ _deploy_addons
    \/ _deploy_ssm_agent
    \/ _deploy_bastion
    \/ _deploy_cluster_autoscaler
    \/ _deploy_aws_load_balancer_controller
    \/ _deploy_aws_load_balancer_controller_fetch
    \/ _deploy_aws_load_balancer_controller_chart
    \/ Pipeline__init__
    \/ _add_pre_prod_stage
    \/ _add_pre_prod_stage_add
    \/ _add_prod_stage
    \/ _add_prod_stage_add
    \/ Raise
    \/ EngineStartAction
    \/ EngineActionSucceeds
    \/ EngineActionFails
    \/ ManualApprove
    \/ ManualReject

Spec == Init /\ [][Next]_vars

----------------------------------------------------------------------------
(* Vocabulary of the properties *)

EksSteps ==
    {"PlatformEKS", "_create_eks", "_create_nodegroups", "_deploy_addons",
     "_deploy_ssm_agent", "_deploy_bastion", "_deploy_cluster_autoscaler",
     "_deploy_aws_load_balancer_controller", "requests_get", "add_helm_chart"}

\* The PlatformEKS call described by eksargs is the one self belongs to.
EksEntered == self.scope # "" /\ self.scope = eksargs.scope

\* ... and its constructor has returned.
EksBuilt ==
    /\ EksEntered
    /\ \A i \in DOMAIN todo : todo[i] \notin EksSteps
    /\ raised \notin EksSteps

\* The Platform call described by call has returned.
PlatformBuilt == EksBuilt /\ call.id_ = self.scope

Given(kwargs, key, value) == key \in DOMAIN kwargs /\ kwargs[key] = value

Declared(scope, id) ==
    \E i \in DOMAIN constructs :
        constructs[i].scope = scope /\ constructs[i].id = id

\* The position of a declared construct in the declaration order.
IndexOf(scope, id) ==
    CHOOSE i \in DOMAIN constructs :
        constructs[i].scope = scope /\ constructs[i].id = id

Before(scope, a, b) ==
    Declared(scope, a) /\ Declared(scope, b)
    /\ IndexOf(scope, a) < IndexOf(scope, b)

Count(seq, scope) == Cardinality({i \in DOMAIN seq : seq[i].scope = scope})

ClusterOf(scope) ==
    clusters[CHOOSE i \in DOMAIN clusters : clusters[i].scope = scope]

NetworkOf(scope) ==
    networks[CHOOSE i \in DOMAIN networks : networks[i].scope = scope]

AgentDaemonSet == "manifest-SSMAgentManifest"
Bastion == "EKSBastion"
AutoscalerChart == "chart-cluster-autoscaler"
LbControllerChart == "chart-aws-load-balancer-controller"
AutoscalerIds ==
    {"cluster_autoscaler", "manifest-CAPriorityExpanderConfigMap",
     AutoscalerChart}
LbControllerIds == {AWS_LB_CONTROLLER, LbControllerChart}
AddonIds ==
    {AgentDaemonSet, "ClusterAdminRoleInstanceProfile", "BastionSecurityGroup",
     Bastion, "BastionAddress"} \cup AutoscalerIds \cup LbControllerIds

DependsOn(scope, from, to) == Dep(scope, from, to) \in deps

----------------------------------------------------------------------------
(* C1 *)

StageIndex(stage_id) ==
    CHOOSE i \in DOMAIN pipeline : pipeline[i].stage_id = stage_id

DeployActions(i) == {a \in pipeline[i].actions : a.category = "Deploy"}

DeployStarted(stage_id) ==
    \E a \in DeployActions(StageIndex(stage_id)) :
        <<StageIndex(stage_id), a.name>> \in started

DeployCompleted(stage_id) ==
    \A a \in DeployActions(StageIndex(stage_id)) :
        <<StageIndex(stage_id), a.name>> \in succeeded

ApprovalAt == <<StageIndex("Platform-PreProd"), "ConfirmPreProdDeployment">>

StageNamed(name) == CHOOSE i \in DOMAIN pipeline : pipeline[i].name = name

SynthAt == <<StageNamed("Build"), "Synth">>

\* C1: once the application is synthesized, the pipeline declares the
\* synthesis stage before the pre-production stage and the pre-production
\* stage before the production stage, each exactly once, and in every
\* state of its execution the pre-production deployment has not
\* started unless the synthesize action has succeeded, the approval action
\* ConfirmPreProdDeployment has not started unless every pre-production
\* deployment action has succeeded, and no production deployment action has
\* started unless the pre-production deployment has completed and the
\* approval has been granted.
C1_StageOrder ==
    Synthesized =>
        /\ \A name \in {"Build", "Platform-PreProd", "Platform-Prod"} :
               Cardinality({i \in DOMAIN pipeline : pipeline[i].name = name}) = 1
        /\ StageNamed("Build") < StageNamed("Platform-PreProd")
        /\ StageNamed("Platform-PreProd") < StageNamed("Platform-Prod")
        /\ DeployStarted("Platform-PreProd") => SynthAt \in succeeded
        /\ ApprovalAt \in started => DeployCompleted("Platform-PreProd")
        /\ DeployStarted("Platform-Prod") =>
               /\ DeployCompleted("Platform-PreProd")
               /\ ApprovalAt \in succeeded

\* The production deployment has run to completion.
C1_Witness ==
    /\ Synthesized
    /\ ApprovalAt \in succeeded
    /\ DeployStarted("Platform-Prod")
    /\ DeployCompleted("Platform-Prod")

----------------------------------------------------------------------------
(* C2 *)

AutoscalerDeclared(scope) == {id \in AutoscalerIds : Declared(scope, id)}

AutoscalerConfigured(scope) ==
    /\ \E m \in configmaps : m.scope = scope
    /\ \E c \in charts : c.scope = scope /\ c.id = AutoscalerChart

\* C2: in a PlatformEKS construction given deploy_cluster_autoscaler=False,
\* no part of the autoscaling controller (service account, priority-expander
\* ConfigMap, chart) is declared in any state; in a finished construction
\* given deploy_cluster_autoscaler=True, or not given the flag, all three
\* parts are declared.
C2_AutoscalerFlag ==
    EksEntered =>
        /\ Given(eksargs.kwargs, DEPLOY_CLUSTER_AUTOSCALER, "False") =>
               /\ AutoscalerDeclared(self.scope) = {}
               /\ ~\E m \in configmaps : m.scope = self.scope
               /\ ~\E c \in charts :
                      c.scope = self.scope /\ c.id = AutoscalerChart
        /\ ( /\ EksBuilt
             /\ \/ DEPLOY_CLUSTER_AUTOSCALER \notin DOMAIN eksargs.kwargs
                \/ Given(eksargs.kwargs, DEPLOY_CLUSTER_AUTOSCALER, "True") )
           => /\ AutoscalerDeclared(self.scope) = AutoscalerIds
              /\ AutoscalerConfigured(self.scope)

\* A construction given deploy_cluster_autoscaler=False has finished, with
\* the load-balancer controller installed.
C2_Witness ==
    /\ EksBuilt
    /\ Given(eksargs.kwargs, DEPLOY_CLUSTER_AUTOSCALER, "False")
    /\ Declared(self.scope, LbControllerChart)

----------------------------------------------------------------------------
(* C3 *)

FirstAddon(scope) ==
    LET at == {i \in DOMAIN constructs :
                  constructs[i].scope = scope /\ constructs[i].id \in AddonIds}
    IN  constructs[CHOOSE i \in at : \A j \in at : i <= j].id

\* The transitive closure of the dependency edges of one scope.
RECURSIVE ReachableFrom(_, _, _)
ReachableFrom(scope, from, n) ==
    IF n = 0 THEN {from}
    ELSE LET r == ReachableFrom(scope, from, n - 1)
         IN  r \cup {d.to : d \in {e \in deps : e.scope = scope /\ e.from \in r}}

OrderedAfter(scope, from, to) ==
    from # to /\ to \in ReachableFrom(scope, from, Cardinality(deps))

\* C3 as stated: in a finished construction the agent daemon set is the
\* first add-on declared, and the bastion, the autoscaling-controller chart
\* and the load-balancer-controller chart, each when installed, are ordered
\* after the agent daemon set by their dependencies.
C3_AllAddonsAfterAgent ==
    EksBuilt =>
        /\ FirstAddon(self.scope) = AgentDaemonSet
        /\ \A id \in {Bastion, AutoscalerChart, LbControllerChart} :
               Declared(self.scope, id) =>
                   OrderedAfter(self.scope, id, AgentDaemonSet)

\* C3 as amended: in a finished construction the agent daemon set is the
\* first add-on declared; the bastion and, when installed, the
\* autoscaling-controller chart depend on the agent daemon set; the
\* load-balancer-controller chart, when installed, depends on its service
\* account only and is not ordered after the agent daemon set.
C3_AddonsAfterAgent ==
    EksBuilt =>
        /\ FirstAddon(self.scope) = AgentDaemonSet
        /\ \A id \in {Bastion, AutoscalerChart} :
               Declared(self.scope, id) =>
                   DependsOn(self.scope, id, AgentDaemonSet)
        /\ Declared(self.scope, LbControllerChart) =>
               /\ {d.to : d \in {e \in deps : e.scope = self.scope
                                     /\ e.from = LbControllerChart}}
                    = {AWS_LB_CONTROLLER}
               /\ ~OrderedAfter(self.scope, LbControllerChart, AgentDaemonSet)

\* A construction with both controllers installed has finished.
C3_Witness ==
    /\ EksBuilt
    /\ Declared(self.scope, AutoscalerChart)
    /\ Declared(self.scope, LbControllerChart)
    /\ Declared(self.scope, Bastion)

----------------------------------------------------------------------------
(* C4 *)

\* C4: every finished construction has declared the bastion, whatever the
\* two flags are; and in every state in which the bastion is declared, it
\* depends on the agent daemon set, which was declared before the bastion.
C4_BastionAfterAgent ==
    EksEntered =>
        /\ EksBuilt => Declared(self.scope, Bastion)
        /\ Declared(self.scope, Bastion) =>
               /\ DependsOn(self.scope, Bastion, AgentDaemonSet)
               /\ Before(self.scope, AgentDaemonSet, Bastion)

\* A construction with both controllers switched off has finished and has
\* its bastion.
C4_Witness ==
    /\ EksBuilt
    /\ Given(eksargs.kwargs, DEPLOY_CLUSTER_AUTOSCALER, "False")
    /\ Given(eksargs.kwargs, DEPLOY_AWS_LB_CONTROLLER, "False")
    /\ Declared(self.scope, Bastion)

----------------------------------------------------------------------------
(* C5 *)

StageBuilt(id) == \E i \in DOMAIN stages : stages[i].id = id
StageEnv(id) == stages[CHOOSE i \in DOMAIN stages : stages[i].id = id].env

BothStages == StageBuilt("Platform-PreProd") /\ StageBuilt("Platform-Prod")

\* C5 as stated: for every value of the environment variables, the
\* environments of the production and the pre-production stage differ.
C5_DistinctEnvironments ==
    BothStages => StageEnv("Platform-Prod") # StageEnv("Platform-PreProd")

\* C5 as amended: the two stages always share the account, the production
\* stage is always in eu-central-1 and the pre-production stage in the
\* default region, so their environments differ exactly when
\* CDK_DEFAULT_REGION is not eu-central-1.
C5_DistinctUnlessDefaultIsProdRegion ==
    BothStages =>
        /\ StageEnv("Platform-Prod").account =
               StageEnv("Platform-PreProd").account
        /\ StageEnv("Platform-Prod").region = "eu-central-1"
        /\ StageEnv("Platform-PreProd").region = environ.CDK_DEFAULT_REGION
        /\ (StageEnv("Platform-Prod") # StageEnv("Platform-PreProd"))
               <=> (environ.CDK_DEFAULT_REGION # "eu-central-1")

\* Both stages exist, in different regions.
C5_Witness ==
    /\ BothStages
    /\ StageEnv("Platform-Prod").region # StageEnv("Platform-PreProd").region

----------------------------------------------------------------------------
(* C6 *)

\* The Platform call that built stage id has returned.
StageFinished(id) ==
    /\ StageBuilt(id)
    /\ ~( /\ eksargs.scope = id
          /\ \/ \E i \in DOMAIN todo : todo[i] \in EksSteps
             \/ raised \in EksSteps )

\* C6: for every Platform invocation, at most one network and at most one
\* cluster are ever declared in it; once its cluster is declared, its one
\* network was declared before the cluster and the cluster's vpc is that
\* network's vpc; and a finished invocation has exactly one of each.
C6_OneNetworkOneCluster ==
    \A n \in DOMAIN stages :
        LET id == stages[n].id
        IN  /\ Count(networks, id) <= 1
            /\ Count(clusters, id) <= 1
            /\ Count(clusters, id) = 1 =>
                   /\ Count(networks, id) = 1
                   /\ Before(id, "PlatformNetwork", "cluster")
                   /\ ClusterOf(id).vpc = NetworkOf(id).vpc
            /\ StageFinished(id) =>
                   Count(networks, id) = 1 /\ Count(clusters, id) = 1

\* The application's three Platform invocations have all returned.
C6_Witness ==
    /\ Len(stages) = 3
    /\ \A n \in DOMAIN stages : StageFinished(stages[n].id)
    /\ Len(clusters) = 3

----------------------------------------------------------------------------
(* C7 *)

NodegroupsOf(scope) == SelectSeq(nodegroups, LAMBDA g : g.scope = scope)

NodegroupNames(scope) ==
    [i \in DOMAIN NodegroupsOf(scope) |-> NodegroupsOf(scope)[i].nodegroup_name]

\* C7: a finished Platform invocation given cluster name C and environment
\* name E has one cluster, named C + "-" + E ("eks-test-dev" for "eks-test"
\* and "dev"), with default capacity 0, and exactly the three node pools
\* od-default-ng, spot-default-ng and od-graviton-ng.
C7_ClusterNaming ==
    ( /\ PlatformBuilt
      /\ CLUSTER_NAME \in DOMAIN call.args
      /\ ENV \in DOMAIN call.args )
    => /\ Count(clusters, self.scope) = 1
       /\ ClusterOf(self.scope).cluster_name =
              call.args[CLUSTER_NAME] \o "-" \o call.args[ENV]
       /\ ( call.args[CLUSTER_NAME] = "eks-test" /\ call.args[ENV] = "dev" )
              => ClusterOf(self.scope).cluster_name = "eks-test-dev"
       /\ ClusterOf(self.scope).default_capacity = 0
       /\ NodegroupNames(self.scope) =
              <<"od-default-ng", "spot-default-ng", "od-graviton-ng">>

\* The application's Dev stage is composed and its cluster is eks-test-dev.
C7_Witness ==
    /\ PlatformBuilt
    /\ call.id_ = "Platform-Dev"
    /\ ClusterOf("Platform-Dev").cluster_name = "eks-test-dev"

----------------------------------------------------------------------------
(* C8 *)

\* C8: once Platform has made its call to PlatformEKS, the call carries
\* both parameters, with cluster_name the caller's cluster name, or "eks"
\* when the caller gave none; and the parameters PlatformEKS extracts are
\* those values, so a parameter equals its own name only when the caller
\* passed that very string.
C8_DefaultClusterName ==
    ( call.id_ # "" /\ eksargs.scope = call.id_ ) =>
        /\ {CLUSTER_NAME, ENV} \subseteq DOMAIN eksargs.kwargs
        /\ eksargs.kwargs[CLUSTER_NAME] =
               IF CLUSTER_NAME \in DOMAIN call.args
               THEN call.args[CLUSTER_NAME] ELSE "eks"
        /\ self.scope = call.id_ =>
               /\ self.params[CLUSTER_NAME] = eksargs.kwargs[CLUSTER_NAME]
               /\ self.params[ENV] =
                      IF ENV \in DOMAIN call.args
                      THEN call.args[ENV] ELSE "eks-env"
               /\ \A param \in {CLUSTER_NAME, ENV} :
                      self.params[param] = param =>
                          Given(call.args, param, param)

\* A Platform composed without a cluster name has its cluster built as "eks".
C8_Witness ==
    /\ PlatformBuilt
    /\ CLUSTER_NAME \notin DOMAIN call.args
    /\ self.params[CLUSTER_NAME] = "eks"

----------------------------------------------------------------------------
(* C9 *)

ConstructionOrder ==
    << "ClusterAdminRole", "EKSSecurityGroup", "cluster", "ODDefaultNodegroup",
       "SpotDefaultNodegroup", "ODGravitonNodegroup", AgentDaemonSet >>

\* C9: in every state (so in every prefix of a construction), each node pool
\* and each add-on construct in the declaration order is preceded by the
\* cluster of its own scope; the administrative role, the security group,
\* the cluster, the three node pools and the first add-on are declared in
\* that order; and every add-on construct comes after the third node pool.
C9_ClusterBeforePoolsAndAddons ==
    /\ \A i \in DOMAIN constructs :
           ( constructs[i].kind = "Nodegroup" \/ constructs[i].id \in AddonIds )
           => \E j \in 1..(i - 1) :
                  /\ constructs[j].scope = constructs[i].scope
                  /\ constructs[j].kind = "Cluster"
    /\ \A scope \in {constructs[n].scope : n \in DOMAIN constructs} :
           \A b \in 2..Len(ConstructionOrder) :
               Declared(scope, ConstructionOrder[b]) =>
                   Before(scope, ConstructionOrder[b - 1], ConstructionOrder[b])
    /\ \A i \in DOMAIN constructs :
           constructs[i].id \in AddonIds =>
               \E j \in 1..(i - 1) :
                   constructs[j] = Construct(constructs[i].scope,
                                             "ODGravitonNodegroup", "Nodegroup")

\* A construction with the autoscaler on and the load-balancer controller
\* off has finished, with its three node pools.
C9_Witness ==
    /\ EksBuilt
    /\ Given(eksargs.kwargs, DEPLOY_CLUSTER_AUTOSCALER, "True")
    /\ Given(eksargs.kwargs, DEPLOY_AWS_LB_CONTROLLER, "False")
    /\ Len(NodegroupsOf(self.scope)) = 3
    /\ Declared(self.scope, AutoscalerChart)

----------------------------------------------------------------------------
(* C10 *)

ExpanderOf(scope) ==
    {c.expander : c \in {c \in charts : c.scope = scope /\ c.id = AutoscalerChart}}

\* C10 as stated: wherever the autoscaling controller is installed, its
\* priority-expander configuration lists od* under priority 20 and spot*
\* under priority 10.
C10_OnDemandPreferred ==
    \A m \in configmaps :
        /\ PrioritiesOf(m.priorities, "od*") = {20}
        /\ PrioritiesOf(m.priorities, "spot*") = {10}

\* C10 as amended: wherever the autoscaling controller is installed, its
\* chart uses the priority expander and the configuration lists od* under
\* priority 10 and spot* under priority 20, so the spot entry has the
\* strictly higher priority value.
C10_SpotPreferred ==
    \A m \in configmaps :
        /\ ExpanderOf(m.scope) = {"priority"}
        /\ PrioritiesOf(m.priorities, "od*") = {10}
        /\ PrioritiesOf(m.priorities, "spot*") = {20}
        /\ \A o \in PrioritiesOf(m.priorities, "od*") :
               \A sp \in PrioritiesOf(m.priorities, "spot*") : sp > o

\* The priority-expander ConfigMap of a finished construction.
C10_Witness ==
    /\ EksBuilt
    /\ \E m \in configmaps :
           m.scope = self.scope
           /\ m.name = "cluster-autoscaler-priority-expander"

----------------------------------------------------------------------------
(* Failures *)

\* The configuration assembled so far.
Configuration ==
    <<stages, constructs, deps, networks, clusters, nodegroups, configmaps,
      charts, policies, bastions, fetches, pipeline>>

\* C12: a failure in any step of the construction aborts the whole
\* construction. The step that raises leaves the exception as it was raised
\* and nothing left to run; it declares nothing; and once an exception has
\* been raised no step runs any more: the failing step is not retried, no
\* later step is executed, and the exception is never replaced.
C12_FailureAborts ==
    [][ /\ raised = "None"
        /\ raised' # "None" =>
               /\ todo # <<>>
               /\ raised' = Head(todo)
               /\ todo' = <<>>
               /\ Configuration' = Configuration ]_vars

\* The remote fetch of the load-balancer controller's policy document has
\* failed: its service account is declared, its chart is not.
C12_Witness ==
    /\ raised = "requests_get"
    /\ todo = <<>>
    /\ Declared(self.scope, AWS_LB_CONTROLLER)
    /\ ~Declared(self.scope, LbControllerChart)

----------------------------------------------------------------------------
(* Node pools *)

\* The node pools of a cluster construction that carry the given name.
PoolsNamed(scope, name) ==
    {g \in Range(NodegroupsOf(scope)) : g.nodegroup_name = name}

\* The pools that are on-demand by their capacity type or by their name.
OnDemandPools(scope) ==
    {g \in Range(NodegroupsOf(scope)) :
        \/ g.capacity_type = "ON_DEMAND"
        \/ g.nodegroup_name \in {"od-default-ng", "od-graviton-ng"}}

InstanceShapes(g) == Range(g.instance_types)

\* C13: in every cluster whose node pools are declared, the spot
\* general-purpose pool allows four instance shapes, the on-demand
\* general-purpose pool one, and no on-demand pool allows more shapes than
\* the spot pool.
C13_SpotShapes ==
    \A scope \in {g.scope : g \in Range(nodegroups)} :
        /\ \E sp \in PoolsNamed(scope, "spot-default-ng") : TRUE
        /\ \A sp \in PoolsNamed(scope, "spot-default-ng") :
               /\ Cardinality(InstanceShapes(sp)) = 4
               /\ \A od \in OnDemandPools(scope) :
                      Cardinality(InstanceShapes(sp))
                          >= Cardinality(InstanceShapes(od))
        /\ \E od \in PoolsNamed(scope, "od-default-ng") : od \in OnDemandPools(scope)
        /\ \A od \in PoolsNamed(scope, "od-default-ng") :
               Cardinality(InstanceShapes(od)) = 1

\* A finished cluster with its spot and on-demand general-purpose pools.
C13_Witness ==
    /\ EksBuilt
    /\ PoolsNamed(self.scope, "spot-default-ng") # {}
    /\ \E od \in OnDemandPools(self.scope) : od.capacity_type = "ON_DEMAND"

----------------------------------------------------------------------------
(* The load-balancer controller *)

LbControllerDeclared(scope) == {id \in LbControllerIds : Declared(scope, id)}

\* The policy documents fetched during the construction of one cluster.
FetchesOf(scope) == SelectSeq(fetches, LAMBDA f : f.scope = scope)

\* The statements attached to the controller's service account.
LbControllerStatements(scope) ==
    {p.stmt : p \in {p \in policies :
                        p.scope = scope /\ p.principal = AWS_LB_CONTROLLER}}

LbFlagTrue ==
    \/ DEPLOY_AWS_LB_CONTROLLER \notin DOMAIN eksargs.kwargs
    \/ Given(eksargs.kwargs, DEPLOY_AWS_LB_CONTROLLER, "True")

\* C14: in a cluster construction, no part of the load-balancer controller
\* is declared and no policy document is fetched unless the flag
\* deploy_alb_controller is true; the document is never fetched twice, and
\* a finished construction whose flag is true has fetched it exactly once
\* and has the controller installed; wherever the chart is declared, the
\* document has been fetched, each of its statements is attached to the
\* service account, the service account was declared before the chart, and
\* the chart depends on it.
C14_LbController ==
    /\ EksEntered =>
          /\ ~LbFlagTrue =>
                 /\ LbControllerDeclared(self.scope) = {}
                 /\ Len(FetchesOf(self.scope)) = 0
                 /\ LbControllerStatements(self.scope) = {}
          /\ EksBuilt /\ LbFlagTrue =>
                 /\ Len(FetchesOf(self.scope)) = 1
                 /\ LbControllerDeclared(self.scope) = LbControllerIds
    /\ \A scope \in {c.scope : c \in Range(constructs)} :
          /\ Len(FetchesOf(scope)) <= 1
          /\ Declared(scope, LbControllerChart) =>
                 /\ Len(FetchesOf(scope)) = 1
                 /\ \A f \in Range(FetchesOf(scope)) :
                        Range(f.doc) = LbControllerStatements(scope)
                 /\ Declared(scope, AWS_LB_CONTROLLER)
                 /\ Before(scope, AWS_LB_CONTROLLER, LbControllerChart)
                 /\ DependsOn(scope, LbControllerChart, AWS_LB_CONTROLLER)

\* A finished construction with the controller installed from a document
\* of two statements.
C14_Witness ==
    /\ EksBuilt
    /\ LbFlagTrue
    /\ Declared(self.scope, LbControllerChart)
    /\ \E f \in Range(FetchesOf(self.scope)) : Len(f.doc) = 2

----------------------------------------------------------------------------
(* The bastion's secrets *)

\* The role of bastion b is allowed secretsmanager:GetSecretValue on the
\* secret of the given name in the given region.
MayGetSecret(b, region, name) ==
    \E p \in policies :
        /\ p.scope = b.scope
        /\ p.principal = b.role
        /\ "secretsmanager:GetSecretValue" \in p.stmt.actions
        /\ SecretArn(region, name) \in p.stmt.resources

\* C15: for every bastion declared, in whatever environment, its role is
\* granted secretsmanager:GetSecretValue on github-token and github-user in
\* the region its bootstrap script fetches them from.
C15_SecretsFetchCovered ==
    \A b \in bastions :
        /\ b.secrets = {"github-token", "github-user"}
        /\ \A name \in b.secrets : MayGetSecret(b, b.secrets_region, name)

----------------------------------------------------------------------------
(* Flags given to Platform *)

\* C16: an add-on flag given to Platform reaches PlatformEKS: in every
\* state of a Platform invocation given deploy_cluster_autoscaler=False no
\* part of the autoscaling controller is declared, and in every state of
\* one given deploy_alb_controller=False no part of the load-balancer
\* controller is declared and no policy document is fetched.
C16_PlatformFlagsReachEks ==
    (call.id_ # "" /\ Declared(call.id_, "EKS")) =>
        /\ Given(call.args, DEPLOY_CLUSTER_AUTOSCALER, "False") =>
               /\ AutoscalerDeclared(call.id_) = {}
               /\ ~\E m \in configmaps : m.scope = call.id_
        /\ Given(call.args, DEPLOY_AWS_LB_CONTROLLER, "False") =>
               /\ LbControllerDeclared(call.id_) = {}
               /\ Len(FetchesOf(call.id_)) = 0

----------------------------------------------------------------------------
(* Node pool names and capacity types *)

\* What follows the capacity prefix in the node pools' names.
NameRests == {"default-ng", "graviton-ng"}

\* name.startswith(prefix), for the names node pools are given.
StartsWith(name, prefix) == \E rest \in NameRests : name = prefix \o rest

\* C17: every node pool whose name starts with "od-" has capacity type
\* ON_DEMAND and every node pool whose name starts with "spot-" has capacity
\* type SPOT; every node pool has min size <= desired size <= max size; and
\* the ARM pool has desired size zero.
C17_NamesAgreeWithCapacity ==
    \A g \in Range(nodegroups) :
        /\ StartsWith(g.nodegroup_name, "od-") => g.capacity_type = "ON_DEMAND"
        /\ StartsWith(g.nodegroup_name, "spot-") => g.capacity_type = "SPOT"
        /\ g.min_size <= g.desired_size
        /\ g.desired_size <= g.max_size
        /\ g.ami_type = "AL2_ARM_64" => g.desired_size = 0

====
